---- MODULE Spec2Model ----
(***************************************************************************)
(* The /get-prices relay of jonrosenblum/ALT: certificate number ->        *)
(* internal asset id -> market transactions over a (grading company,       *)
(* grade) matrix -> confidence rating.  The request handler is modelled    *)
(* as one process per request whose steps are the code between two awaits; *)
(* the confidence estimator is modelled as operators computed the way the  *)
(* code computes them.                                                     *)
(*                                                                         *)
(* Numbers.  JavaScript numbers are modelled as exact rationals [n, d]     *)
(* with d > 0, and NaN as the record with d = 0.  Price strings are        *)
(* sequences of characters, parsed by parseFloat as an unsigned decimal    *)
(* integer prefix.  Time is counted in whole days; a date string spells a  *)
(* day number and a Date holds it as its time value, NaN when invalid.     *)
(***************************************************************************)
EXTENDS Integers, Sequences, FiniteSets, TLC

VARIABLES
    pc,               \* per request: position of the async handler
    query,            \* per request: req.query {slabNumber, gradingCompany, gradeNumber}
    internalId,       \* per request: const internalId
    call,             \* per request: which getPrices invocation is running (1, 2)
    pos,              \* per request: indices of the two for-loops of getPrices
    allTransactions,  \* per request: let allTransactions of the running getPrices
    response,         \* per request: what res.status().send() / res.json() sent
    fetches,          \* per request: the upstream calls issued, in order
    replies,          \* per request: the upstream answers received, in order
    clock,            \* per request: the values new Date() gave calculateConfidence
    upstream,         \* what the Certificate API and the clock can answer in this run
    prices,           \* estimator: the argument of calculateConfidence
    reads,            \* estimator: what new Date() returned to calculateConfidence
    results,          \* estimator: what the multi-window calculateConfidence returned
    legacy            \* estimator: what the single-window calculateConfidence returned

vars == <<pc, query, internalId, call, pos, allTransactions, response, fetches,
          replies, clock, upstream, prices, reads, results, legacy>>

handlerVars == <<pc, query, internalId, call, pos, allTransactions, response,
                 fetches, replies, clock, upstream>>

estimatorVars == <<prices, reads, results, legacy>>

----------------------------------------------------------------------------
(* JavaScript values *)

\* The value of a query parameter, a variable or a property that is not there.
Undefined == "undefined"

\* if (v), !v, v ? a : b on a string-or-undefined value.
Truthy(v) == v # Undefined /\ v # ""

NaN == [n |-> 0, d |-> 0]

isNaN(x) == x.d = 0

RECURSIVE GCD(_, _)
GCD(a, b) == IF b = 0 THEN a ELSE GCD(b, a % b)

Abs(i) == IF i < 0 THEN -i ELSE i

\* The number n/d (d > 0) in lowest terms.
Num(n, d) == LET g == GCD(Abs(n), d) IN [n |-> n \div g, d |-> d \div g]

Plus(x, y) ==
    IF isNaN(x) \/ isNaN(y) THEN NaN ELSE Num(x.n * y.d + y.n * x.d, x.d * y.d)

Minus(x, y) ==
    IF isNaN(x) \/ isNaN(y) THEN NaN ELSE Num(x.n * y.d - y.n * x.d, x.d * y.d)

\* x / k for an array length k > 0.
DividedBy(x, k) == IF isNaN(x) THEN NaN ELSE Num(x.n, x.d * k)

\* x * (p / 100), for the literals 0.1 and 0.2.
TimesPercent(x, p) == IF isNaN(x) THEN NaN ELSE Num(x.n * p, x.d * 100)

MathAbs(x) == IF isNaN(x) THEN NaN ELSE [n |-> Abs(x.n), d |-> x.d]

\* x < y: false as soon as one side is NaN.
LessThan(x, y) == ~isNaN(x) /\ ~isNaN(y) /\ x.n * y.d < y.n * x.d

Digits == <<"0", "1", "2", "3", "4", "5", "6", "7", "8", "9">>

IsDigit(c) == \E i \in 1..10 : Digits[i] = c

DigitValue(c) == (CHOOSE i \in 1..10 : Digits[i] = c) - 1

RECURSIVE DigitPrefix(_)
DigitPrefix(s) ==
    IF s = <<>> \/ ~IsDigit(Head(s)) THEN <<>>
    ELSE <<Head(s)>> \o DigitPrefix(Tail(s))

RECURSIVE DecimalValue(_)
DecimalValue(s) ==
    IF s = <<>> THEN 0
    ELSE 10 * DecimalValue(SubSeq(s, 1, Len(s) - 1)) + DigitValue(s[Len(s)])

\* parseFloat on a string of characters: the longest numeric prefix, NaN when
\* there is none.
parseFloat(s) ==
    LET p == DigitPrefix(s) IN IF p = <<>> THEN NaN ELSE Num(DecimalValue(p), 1)

\* x >= y, x <= y: false as soon as one side is NaN.
GreaterOrEqual(x, y) == ~isNaN(x) /\ ~isNaN(y) /\ x.n * y.d >= y.n * x.d

LessOrEqual(x, y) == ~isNaN(x) /\ ~isNaN(y) /\ x.n * y.d <= y.n * x.d

\* new Date(transaction.date), as its time value: the day number a date string
\* spells, NaN (Invalid Date) unless the whole string is a date.
NewDate(date) ==
    IF date # <<>> /\ DigitPrefix(date) = date THEN Num(DecimalValue(date), 1)
    ELSE NaN

\* A Date object set to day t.
DateAt(t) == Num(t, 1)

----------------------------------------------------------------------------
(* calculateConfidence, multi-window form *)

\* const timespans
timespans == [year |-> 365, quarter |-> 90, month |-> 30, week |-> 7]

Keep(t) == [price |-> parseFloat(t.price), date |-> t.date]

\* startDate.setDate(startDate.getDate() - days), startDate being new Date() = now.
filterStart(now, days) == DateAt(now - days)

\* The predicate of filterPrices' filter.
filterKeeps(transaction, startDate) ==
    GreaterOrEqual(NewDate(transaction.date), startDate)

\* filterPrices(days), the clock reading now.
filterPrices(ps, days, now) ==
    LET kept == SelectSeq(ps, LAMBDA t : filterKeeps(t, filterStart(now, days)))
    IN  [i \in 1..Len(kept) |-> Keep(kept[i])]

RECURSIVE SumPrice(_)
SumPrice(recentPrices) ==
    IF recentPrices = <<>> THEN Num(0, 1)
    ELSE Plus(SumPrice(SubSeq(recentPrices, 1, Len(recentPrices) - 1)),
              recentPrices[Len(recentPrices)].price)

RECURSIVE SumDeviation(_, _)
SumDeviation(recentPrices, averagePrice) ==
    IF recentPrices = <<>> THEN Num(0, 1)
    ELSE Plus(SumDeviation(SubSeq(recentPrices, 1, Len(recentPrices) - 1), averagePrice),
              MathAbs(Minus(recentPrices[Len(recentPrices)].price, averagePrice)))

\* classify with <= for <: a deviation on a threshold gets the better level.
classifyInclusive(averagePrice, averageDeviation) ==
    IF LessOrEqual(averageDeviation, TimesPercent(averagePrice, 10)) THEN "High"
    ELSE IF LessOrEqual(averageDeviation, TimesPercent(averagePrice, 20)) THEN "Medium"
    ELSE "Low"

\* The if / else if that sets confidenceLevel.
classify(averagePrice, averageDeviation) ==
    IF LessThan(averageDeviation, TimesPercent(averagePrice, 10)) THEN "High"
    ELSE IF LessThan(averageDeviation, TimesPercent(averagePrice, 20)) THEN "Medium"
    ELSE "Low"

calculateAverageAndDeviation(recentPrices) ==
    IF Len(recentPrices) = 0
    THEN [averagePrice |-> Num(0, 1), averageDeviation |-> Num(0, 1),
          confidenceLevel |-> "Low"]
    ELSE LET averagePrice == DividedBy(SumPrice(recentPrices), Len(recentPrices))
             averageDeviation ==
                 DividedBy(SumDeviation(recentPrices, averagePrice), Len(recentPrices))
         IN  [averagePrice |-> averagePrice, averageDeviation |-> averageDeviation,
              confidenceLevel |-> classify(averagePrice, averageDeviation)]

\* One iteration of the loop over timespans.
periodResult(ps, days, now) ==
    LET recentPrices == filterPrices(ps, days, now)
        r == calculateAverageAndDeviation(recentPrices)
    IN  [recentPrices |-> recentPrices, averagePrice |-> r.averagePrice,
         averageDeviation |-> r.averageDeviation,
         confidenceLevel |-> r.confidenceLevel]

\* calculateConfidence(prices); rs[period] is what new Date() returned in
\* that period's filterPrices call.
calculateConfidence(ps, rs) ==
    [period \in DOMAIN timespans |-> periodResult(ps, timespans[period], rs[period])]

----------------------------------------------------------------------------
(* calculateConfidence, single-window legacy form *)

\* lastMonth.setMonth(lastMonth.getMonth() - 1): the day monthLength days
\* before now, monthLength being the length of the month stepped over.
lastMonthOf(now, monthLength) == DateAt(now - monthLength)

\* The predicate of the legacy filter.
legacyKeeps(transaction, lastMonth) ==
    LessOrEqual(NewDate(transaction.date), lastMonth)

legacyRecentPrices(ps, lastMonth) ==
    LET kept == SelectSeq(ps, LAMBDA t : legacyKeeps(t, lastMonth))
    IN  [i \in 1..Len(kept) |-> [price |-> parseFloat(kept[i].price)]]

\* The legacy calculateConfidence(prices): what it logs (lastMonth,
\* recentPrices) and the level it returns.
legacyCalculateConfidence(ps, today, monthLength) ==
    LET lastMonth == lastMonthOf(today, monthLength)
        recentPrices == legacyRecentPrices(ps, lastMonth)
        averagePrice == DividedBy(SumPrice(recentPrices), Len(recentPrices))
        averageDeviation ==
            DividedBy(SumDeviation(recentPrices, averagePrice), Len(recentPrices))
    IN  [lastMonth |-> lastMonth, recentPrices |-> recentPrices,
         confidence |-> IF Len(recentPrices) = 0 THEN "Low"
                        ELSE classify(averagePrice, averageDeviation)]

----------------------------------------------------------------------------
(* The requests and the upstream services *)

Reqs == {"r1", "r2"}

\* The day new Date() reads when a request is answered.
Today == 1000

RECURSIVE DayString(_)
\* The date string that spells day number t.
DayString(t) ==
    IF t < 10 THEN <<Digits[t + 1]>>
    ELSE DayString(t \div 10) \o <<Digits[(t % 10) + 1]>>

\* What new Date() can return in the four filterPrices calls of one
\* calculateConfidence: the same day, or midnight passes between two calls.
ClockReads ==
    {[year |-> Today, quarter |-> Today, month |-> Today, week |-> Today],
     [year |-> Today, quarter |-> Today, month |-> Today + 1, week |-> Today + 1]}

\* What fetch() and response.json() can give getInternalId: the fetch rejects,
\* or it resolves with an HTTP status (ok or not) and a body; depth says how
\* far the path data.data.cert.asset.id exists in the body: 0 the body is not
\* JSON, 1 no data, 2 no cert, 3 no asset, 4 no id, 5 the whole path.
CertAnswers(id) ==
    {[kind |-> "reject", ok |-> FALSE, depth |-> 0, id |-> Undefined]}
    \cup {[kind |-> "response", ok |-> ok, depth |-> d,
           id |-> IF d = 5 THEN id ELSE Undefined] : ok \in BOOLEAN, d \in 0..5}

\* An upstream whose Certificate API and clock can answer anything above.
AnyUpstream == [cert |-> CertAnswers("A1") \cup CertAnswers("A2"), reads |-> ClockReads]

\* An upstream whose Certificate API is down or healthy, on a quiet day.
PlainUpstream ==
    [cert |-> {a \in CertAnswers("A1") \cup CertAnswers("A2") :
                  a.kind = "reject" \/ (a.ok /\ a.depth = 5)},
     reads |-> {[year |-> Today, quarter |-> Today, month |-> Today, week |-> Today]}]

\* The asset a certificate number stands for upstream.
AssetOf(slabNumber) == IF slabNumber = "S2" THEN "A2" ELSE "A1"

\* The transactions the upstream holds for one asset under one filter: one
\* sale, priced by asset, company and grade, dated by grade.
Market(id, company, grade) ==
    <<[price |-> <<IF id = "A1" THEN "1" ELSE IF id = "A2" THEN "2" ELSE "3",
                   IF company = "PSA" THEN "0" ELSE "4",
                   IF grade = "9.0" THEN "0" ELSE IF grade = "9.5" THEN "4" ELSE "8">>,
       date |-> DayString(IF grade = "10.0" THEN Today - 5 ELSE Today - 20)]>>

\* What fetch() and response.json() can give one sub-query of getPrices: the
\* fetch rejects, the body lacks data.asset.marketTransactions, or the body
\* holds a list, empty or not.
TxAnswers(id, company, grade) ==
    {[kind |-> "reject", marketTransactions |-> <<>>],
     [kind |-> "malformed", marketTransactions |-> <<>>],
     [kind |-> "body", marketTransactions |-> <<>>],
     [kind |-> "body", marketTransactions |-> Market(id, company, grade)]}

----------------------------------------------------------------------------
(* getInternalId *)

\* await fetch / await response.json() / data.data.cert.asset.id throws.
certThrows(a) == a.kind = "reject" \/ a.depth < 4

\* return data.data.cert.asset.id
certId(a) == a.id

----------------------------------------------------------------------------
(* getPrices *)

NoFilter == [gradingCompany |-> Undefined, gradeNumber |-> Undefined]

\* const gradingCompanies
gradingCompanies(gradingCompany) ==
    IF Truthy(gradingCompany) THEN <<gradingCompany>> ELSE <<"PSA", "BGS">>

\* gradeNumbers with the BGS half grade left out of the default list.
gradeNumbersWithoutHalfGrade(gradeNumber) ==
    [PSA |-> IF Truthy(gradeNumber) THEN <<gradeNumber>> ELSE <<"9.0", "10.0">>,
     BGS |-> IF Truthy(gradeNumber) THEN <<gradeNumber>> ELSE <<"9.0", "10.0">>]

\* const gradeNumbers
gradeNumbers(gradeNumber) ==
    [PSA |-> IF Truthy(gradeNumber) THEN <<gradeNumber>> ELSE <<"9.0", "10.0">>,
     BGS |-> IF Truthy(gradeNumber) THEN <<gradeNumber>> ELSE <<"9.0", "9.5", "10.0">>]

\* for (const grade of gradeNumbers[company]) has something to iterate.
iterable(company, gradeNumber) == company \in DOMAIN gradeNumbers(gradeNumber)

companyAt(args, p) == gradingCompanies(args.gradingCompany)[p.company]

gradeAt(args, p) == gradeNumbers(args.gradeNumber)[companyAt(args, p)][p.grade]

\* Entering the outer loop at company index c: the first sub-query of that
\* company, or the TypeError of iterating undefined.
enterCompany(args, c) ==
    IF iterable(gradingCompanies(args.gradingCompany)[c], args.gradeNumber)
    THEN [kind |-> "fetch", pos |-> [company |-> c, grade |-> 1]]
    ELSE [kind |-> "throw", pos |-> [company |-> c, grade |-> 0]]

\* From the top of getPrices to its first await.
startGetPrices(args) == enterCompany(args, 1)

\* if (allTransactions.length > 0 && gradingCompany && gradeNumber) break;
breaksEarly(args, length) ==
    length > 0 /\ Truthy(args.gradingCompany) /\ Truthy(args.gradeNumber)

\* From a sub-query's result to the next await or the return; length is
\* allTransactions.length after the concat.
afterSubQuery(args, p, length) ==
    LET companies == gradingCompanies(args.gradingCompany)
        grades == gradeNumbers(args.gradeNumber)[companies[p.company]]
    IN  IF ~breaksEarly(args, length) /\ p.grade < Len(grades)
        THEN [kind |-> "fetch", pos |-> [company |-> p.company, grade |-> p.grade + 1]]
        ELSE IF p.company < Len(companies) THEN enterCompany(args, p.company + 1)
        ELSE [kind |-> "return", pos |-> p]

\* txThrows with a missing marketTransactions read as an empty list
\* (marketTransactions?.map(...) ?? []).
txThrowsOnRejectOnly(a) == a.kind = "reject"

\* fetch / response.json() / data.data.asset.marketTransactions.map throws.
txThrows(a) == a.kind # "body"

\* data.data.asset.marketTransactions.map(...), tagging each transaction.
tagged(marketTransactions, company, grade) ==
    [i \in 1..Len(marketTransactions) |->
        [price |-> marketTransactions[i].price, date |-> marketTransactions[i].date,
         gradingCompany |-> company, gradeNumber |-> grade]]

\* concat on an allTransactions declared at module scope, which every
\* request in flight appends to.
concatShared(all, r, transactions) == [q \in DOMAIN all |-> all[q] \o transactions]

\* allTransactions = allTransactions.concat(transactions), in the invocation
\* of request r.
concat(all, r, transactions) == [all EXCEPT ![r] = @ \o transactions]

----------------------------------------------------------------------------
(* app.get('/get-prices') *)

NotSent == [status |-> 0, text |-> "", prices |-> <<>>, confidence |-> <<>>]

\* res.status(400).send('Please provide a slab number')
BadRequest ==
    [status |-> 400, text |-> "Please provide a slab number", prices |-> <<>>,
     confidence |-> <<>>]

\* res.status(500).send('Error fetching data')
ServerError ==
    [status |-> 500, text |-> "Error fetching data", prices |-> <<>>,
     confidence |-> <<>>]

\* res.json({ prices, confidence })
Json(ps, confidence) ==
    [status |-> 200, text |-> "", prices |-> ps, confidence |-> confidence]

\* missing as slabNumber === undefined: an empty slabNumber passes.
missingOnlyIfUndefined(slabNumber) == slabNumber = Undefined

\* if (!slabNumber)
missing(slabNumber) == ~Truthy(slabNumber)

\* fallbackNeeded as if (!prices): an empty array is truthy, so never.
fallbackIfFalsy(ps) == FALSE

\* if (prices.length === 0), after the first getPrices.
fallbackNeeded(ps) == Len(ps) = 0

\* The arguments of the getPrices invocation request r is in.
callArgs(r) ==
    IF call[r] = 1
    THEN [gradingCompany |-> query[r].gradingCompany,
          gradeNumber |-> query[r].gradeNumber]
    ELSE NoFilter

CertFetch(slabNumber) ==
    [api |-> "Cert", id |-> slabNumber, gradingCompany |-> Undefined,
     gradeNumber |-> Undefined, call |-> 0]

\* TxFetch with the id left undefined: getPrices called without the id
\* getInternalId returned.
TxFetchUnresolved(id, args, p, n) ==
    [api |-> "Transactions", id |-> Undefined, gradingCompany |-> companyAt(args, p),
     gradeNumber |-> gradeAt(args, p), call |-> n]

TxFetch(id, args, p, n) ==
    [api |-> "Transactions", id |-> id, gradingCompany |-> companyAt(args, p),
     gradeNumber |-> gradeAt(args, p), call |-> n]

\* The handler's response ends the request.
Send(r, resp) ==
    /\ pc' = [pc EXCEPT ![r] = "done"]
    /\ response' = [response EXCEPT ![r] = resp]

\* Request r runs getPrices invocation n up to its first await; all is
\* allTransactions as the step so far has left it.
Invoke(r, id, n, args, all) ==
    LET step == startGetPrices(args)
    IN  /\ call' = [call EXCEPT ![r] = n]
        /\ pos' = [pos EXCEPT ![r] = step.pos]
        /\ allTransactions' = [all EXCEPT ![r] = <<>>]
        /\ IF step.kind = "throw"
           THEN /\ Send(r, ServerError)
                /\ UNCHANGED fetches
           ELSE /\ pc' = [pc EXCEPT ![r] = "awaitTx"]
                /\ fetches' = [fetches EXCEPT ![r] = Append(@, TxFetch(id, args, step.pos, n))]
                /\ UNCHANGED response

\* The handler from its entry to the first await: the 400 check, then the
\* fetch of getInternalId.
Receive(r) ==
    /\ pc[r] = "arrived"
    /\ IF missing(query[r].slabNumber)
       THEN /\ Send(r, BadRequest)
            /\ UNCHANGED fetches
       ELSE /\ pc' = [pc EXCEPT ![r] = "awaitCert"]
            /\ fetches' = [fetches EXCEPT ![r] = Append(@, CertFetch(query[r].slabNumber))]
            /\ UNCHANGED response
    /\ UNCHANGED <<query, internalId, call, pos, allTransactions, replies, clock, upstream>>
    /\ UNCHANGED estimatorVars

\* The Certificate call settles: getInternalId returns or throws, and on a
\* return the first getPrices runs to its first await.
CertSettled(r) ==
    /\ pc[r] = "awaitCert"
    /\ \E a \in CertAnswers(AssetOf(query[r].slabNumber)) \cap upstream.cert :
        /\ replies' = [replies EXCEPT ![r] = Append(@, a)]
        /\ IF certThrows(a)
           THEN /\ Send(r, ServerError)
                /\ UNCHANGED <<internalId, call, pos, allTransactions, fetches>>
           ELSE /\ internalId' = [internalId EXCEPT ![r] = certId(a)]
                /\ Invoke(r, certId(a), 1,
                          [gradingCompany |-> query[r].gradingCompany,
                           gradeNumber |-> query[r].gradeNumber], allTransactions)
    /\ UNCHANGED <<query, clock, upstream>>
    /\ UNCHANGED estimatorVars

\* A Transactions sub-query settles: getPrices throws, issues its next
\* sub-query, or returns; on a return the handler falls back to the full
\* matrix or computes the confidence and answers.
TxSettled(r) ==
    /\ pc[r] = "awaitTx"
    /\ LET args == callArgs(r)
           company == companyAt(args, pos[r])
           grade == gradeAt(args, pos[r])
       IN \E a \in TxAnswers(internalId[r], company, grade) :
           LET all == concat(allTransactions, r,
                             tagged(a.marketTransactions, company, grade))
               step == afterSubQuery(args, pos[r], Len(all[r]))
           IN  /\ replies' = [replies EXCEPT ![r] = Append(@, a)]
               /\ IF txThrows(a) \/ step.kind = "throw"
                  THEN /\ Send(r, ServerError)
                       /\ UNCHANGED <<call, pos, allTransactions, fetches, clock>>
                  ELSE IF step.kind = "fetch"
                  THEN /\ pos' = [pos EXCEPT ![r] = step.pos]
                       /\ allTransactions' = all
                       /\ fetches' = [fetches EXCEPT ![r] =
                              Append(@, TxFetch(internalId[r], args, step.pos, call[r]))]
                       /\ UNCHANGED <<pc, response, call, clock>>
                  ELSE IF call[r] = 1 /\ fallbackNeeded(all[r])
                  THEN /\ Invoke(r, internalId[r], 2, NoFilter, all)
                       /\ UNCHANGED clock
                  ELSE \E rs \in upstream.reads :
                       /\ Send(r, Json(all[r], calculateConfidence(all[r], rs)))
                       /\ clock' = [clock EXCEPT ![r] = rs]
                       /\ allTransactions' = all
                       /\ UNCHANGED <<call, pos, fetches>>
    /\ UNCHANGED <<query, internalId, upstream>>
    /\ UNCHANGED estimatorVars

----------------------------------------------------------------------------
(* The specification of one request *)

SlabNumbers == {Undefined, "", "S1"}

GradingCompanies == {Undefined, "", "PSA", "BGS", "CGC"}

GradeNumbers == {Undefined, "", "9.5", "10.0"}

Queries(slabNumbers, companies, grades) ==
    [slabNumber : slabNumbers, gradingCompany : companies, gradeNumber : grades]

NoQuery == [slabNumber |-> Undefined, gradingCompany |-> Undefined,
            gradeNumber |-> Undefined]

NoReads == [year |-> 0, quarter |-> 0, month |-> 0, week |-> 0]

NoResults == <<>>

\* The handler's state as requests arrive: q[r] is request r's query string,
\* the requests outside DOMAIN q never arrive, and u is the upstream.
HandlerInit(q, u) ==
    /\ upstream = u
    /\ query = [r \in Reqs |-> IF r \in DOMAIN q THEN q[r] ELSE NoQuery]
    /\ pc = [r \in Reqs |-> IF r \in DOMAIN q THEN "arrived" ELSE "absent"]
    /\ internalId = [r \in Reqs |-> Undefined]
    /\ call = [r \in Reqs |-> 0]
    /\ pos = [r \in Reqs |-> [company |-> 0, grade |-> 0]]
    /\ allTransactions = [r \in Reqs |-> <<>>]
    /\ response = [r \in Reqs |-> NotSent]
    /\ fetches = [r \in Reqs |-> <<>>]
    /\ replies = [r \in Reqs |-> <<>>]
    /\ clock = [r \in Reqs |-> NoReads]

EstimatorIdle ==
    /\ prices = <<>>
    /\ reads = NoReads
    /\ results = NoResults
    /\ legacy = NoResults

Init ==
    /\ \E q \in Queries(SlabNumbers, GradingCompanies, GradeNumbers) :
           HandlerInit([r \in {"r1"} |-> q], AnyUpstream)
    /\ EstimatorIdle

Next == \E r \in Reqs : Receive(r) \/ CertSettled(r) \/ TxSettled(r)

Spec == Init /\ [][Next]_vars

\* The specification of one request when every upstream call returns: each
\* await settles, and the event loop then runs the handler's continuation.
SpecLive ==
    Spec /\ \A r \in Reqs : WF_vars(Receive(r) \/ CertSettled(r) \/ TxSettled(r))

----------------------------------------------------------------------------
(* The specification of two requests handled concurrently: the event loop   *)
(* runs one handler step at a time, and between two awaits of one request   *)
(* any step of the other may run.                                           *)

InitConcurrent ==
    /\ \E q1 \in Queries({"S1"}, {Undefined, "PSA"}, {"10.0"}) :
       \E q2 \in Queries({"", "S2"}, {"BGS"}, {"9.5"}) :
           HandlerInit([r \in Reqs |-> IF r = "r1" THEN q1 ELSE q2], PlainUpstream)
    /\ EstimatorIdle

SpecConcurrent == InitConcurrent /\ [][Next]_vars

----------------------------------------------------------------------------
(* The specification of the estimator: calculateConfidence, in its          *)
(* multi-window and in its legacy form, applied to a list of transactions.  *)

\* The longest transaction list the estimator is given.
MaxTransactions == 2

\* Price strings: four that parse and one that does not.
PriceStrings == {<<"8", "0">>, <<"9", "0">>, <<"1", "1", "0">>, <<"1", "2", "0">>,
                 <<"n", "/", "a">>}

\* How many days before Today a transaction is dated: on and just before
\* the start of each window.
Ages == {7, 8, 30, 31, 90, 91, 365, 366}

\* Date strings: one per age, and one that is no date.
DateStrings == {DayString(Today - age) : age \in Ages} \cup {<<"n", "/", "a">>}

Transactions == [price : PriceStrings, date : DateStrings]

TransactionLists ==
    UNION {[1..k -> Transactions] : k \in 0..MaxTransactions}

\* The days getMonth() - 1 can step back over.
MonthLengths == {28, 29, 30, 31}

InitEstimator ==
    /\ HandlerInit(<<>>, AnyUpstream)
    /\ prices \in TransactionLists
    /\ reads = NoReads
    /\ results = NoResults
    /\ legacy = NoResults

\* calculateConfidence(prices), multi-window form.
Estimate ==
    /\ results = NoResults /\ legacy = NoResults
    /\ \E rs \in ClockReads :
        /\ reads' = rs
        /\ results' = calculateConfidence(prices, rs)
    /\ UNCHANGED <<prices, legacy>>
    /\ UNCHANGED handlerVars

\* calculateConfidence(prices), legacy form.
EstimateLegacy ==
    /\ results = NoResults /\ legacy = NoResults
    /\ \E monthLength \in MonthLengths :
        /\ reads' = [period \in DOMAIN timespans |-> Today]
        /\ legacy' = legacyCalculateConfidence(prices, Today, monthLength)
    /\ UNCHANGED <<prices, results>>
    /\ UNCHANGED handlerVars

NextEstimator == Estimate \/ EstimateLegacy

SpecEstimator == InitEstimator /\ [][NextEstimator]_vars

----------------------------------------------------------------------------
(* What the claims read off a state *)

\* The (company, grade) filters of the sub-queries request r issued in its
\* getPrices invocation n, in the order issued.
SubQueries(r, n) ==
    LET fs == SelectSeq(fetches[r], LAMBDA f : f.api = "Transactions" /\ f.call = n)
    IN  [i \in 1..Len(fs) |-> <<fs[i].gradingCompany, fs[i].gradeNumber>>]

IsPrefix(s, t) == Len(s) <= Len(t) /\ s = SubSeq(t, 1, Len(s))

\* getPrices invocation n of request r has returned (it did not throw and is
\* not waiting).
Returned(r, n) ==
    \/ n = 1 /\ call[r] = 2
    \/ call[r] = n /\ pc[r] = "done" /\ response[r].status = 200

\* getInternalId has returned for request r.
Resolved(r) == replies[r] # <<>> /\ replies[r][1].kind = "response" /\ replies[r][1].depth >= 4

\* The answers request r got from the Transactions API, in order.
TxReplies(r) == SubSeq(replies[r], 2, Len(replies[r]))

\* getPrices(args) run on its own against the answers rs, from the step it is
\* at with allTransactions = all: it throws, returns all, or waits for more.
RECURSIVE runGetPrices(_, _, _, _)
runGetPrices(args, step, all, rs) ==
    IF step.kind = "throw" THEN [kind |-> "throw", value |-> <<>>, rest |-> rs]
    ELSE IF step.kind = "return" THEN [kind |-> "return", value |-> all, rest |-> rs]
    ELSE IF rs = <<>> THEN [kind |-> "pending", value |-> all, rest |-> rs]
    ELSE IF Head(rs).kind # "body" THEN [kind |-> "throw", value |-> <<>>, rest |-> Tail(rs)]
    ELSE LET company == companyAt(args, step.pos)
             grade == gradeAt(args, step.pos)
             more == [i \in 1..Len(Head(rs).marketTransactions) |->
                         [price |-> Head(rs).marketTransactions[i].price,
                          date |-> Head(rs).marketTransactions[i].date,
                          gradingCompany |-> company, gradeNumber |-> grade]]
         IN  runGetPrices(args, afterSubQuery(args, step.pos, Len(all) + Len(more)),
                          all \o more, Tail(rs))

FiltersOf(q) == [gradingCompany |-> q.gradingCompany, gradeNumber |-> q.gradeNumber]

\* The first getPrices of request r, run on its own against r's answers.
FirstRun(r) == runGetPrices(FiltersOf(query[r]), startGetPrices(FiltersOf(query[r])),
                            <<>>, TxReplies(r))

\* The fallback getPrices of request r, run on its own against the answers
\* the first left.
SecondRun(r) == runGetPrices(NoFilter, startGetPrices(NoFilter), <<>>, FirstRun(r).rest)

----------------------------------------------------------------------------
(* C1 *)

FullMatrix ==
    <<<<"PSA", "9.0">>, <<"PSA", "10.0">>, <<"BGS", "9.0">>, <<"BGS", "9.5">>,
      <<"BGS", "10.0">>>>

Unfiltered(r, n) ==
    n = 2 \/ (~Truthy(query[r].gradingCompany) /\ ~Truthy(query[r].gradeNumber))

\* C1: a getPrices invocation given neither gradingCompany nor gradeNumber
\* issues its sub-queries in the order (PSA,9.0), (PSA,10.0), (BGS,9.0),
\* (BGS,9.5), (BGS,10.0), and once it has returned it has issued exactly these
\* five, whatever the sub-queries returned.
C1_FullMatrixFiveSubQueries ==
    \A r \in Reqs : \A n \in 1..2 :
        (call[r] >= n /\ Unfiltered(r, n)) =>
            /\ IsPrefix(SubQueries(r, n), FullMatrix)
            /\ Returned(r, n) => SubQueries(r, n) = FullMatrix

\* An unfiltered first invocation has returned transactions of several pairs.
C1_Witness ==
    \E r \in Reqs :
        /\ Unfiltered(r, 1) /\ call[r] = 1 /\ Returned(r, 1)
        /\ Len(response[r].prices) >= 2
        /\ Len(response[r].prices) < 5

----------------------------------------------------------------------------
(* C2 *)

\* C2: with a non-empty gradingCompany and a non-empty gradeNumber, whatever
\* the company, the first getPrices invocation issues exactly one sub-query,
\* filtered by that pair, and returns normally when that sub-query succeeds.
C2_ExplicitPairOneSubQuery ==
    \A r \in Reqs :
        (call[r] >= 1 /\ Truthy(query[r].gradingCompany) /\ Truthy(query[r].gradeNumber)) =>
            /\ SubQueries(r, 1) = <<<<query[r].gradingCompany, query[r].gradeNumber>>>>
            /\ (Len(replies[r]) >= 2 /\ replies[r][2].kind = "body") => FirstRun(r).kind = "return"

----------------------------------------------------------------------------
(* C3 *)

ExplicitFilters(r) == Truthy(query[r].gradingCompany) \/ Truthy(query[r].gradeNumber)

FirstReturnedEmpty(r) ==
    Resolved(r) /\ FirstRun(r).kind = "return" /\ FirstRun(r).value = <<>>

FallbackAnswer(r) ==
    (pc[r] = "done" /\ call[r] = 2 /\ response[r].status = 200) =>
        /\ SecondRun(r).kind = "return"
        /\ response[r].prices = SecondRun(r).value
        /\ response[r].confidence = calculateConfidence(SecondRun(r).value, clock[r])

\* C3 as claimed: the handler runs getPrices a second time if and only if the
\* first invocation had explicit filters and returned no transactions, and
\* then answers with the unfiltered result.
C3_FallbackOnlyAfterExplicitFilters ==
    \A r \in Reqs :
        /\ call[r] = 2 <=> (ExplicitFilters(r) /\ FirstReturnedEmpty(r))
        /\ FallbackAnswer(r)

\* C3 as amended: the handler runs getPrices a second time if and only if the
\* first invocation returned no transactions, with or without filters, and
\* then answers with the unfiltered result.
C3_FallbackAfterEmptyResult ==
    \A r \in Reqs :
        /\ call[r] = 2 <=> FirstReturnedEmpty(r)
        /\ FallbackAnswer(r)

\* A request with filters was answered from the fallback's transactions.
C3_Witness ==
    \E r \in Reqs :
        /\ ExplicitFilters(r) /\ pc[r] = "done" /\ call[r] = 2
        /\ response[r].status = 200 /\ response[r].prices # <<>>

----------------------------------------------------------------------------
(* C4 *)

\* C4: a Transactions sub-query that fails (the fetch rejects, or the body
\* lacks asset.marketTransactions) is the last upstream call of its request,
\* and the request ends with status 500, the plain-text body and none of the
\* transactions accumulated before the failure.
C4_SubQueryFailureAborts ==
    \A r \in Reqs : \A i \in 2..Len(replies[r]) :
        replies[r][i].kind \in {"reject", "malformed"} =>
            /\ i = Len(replies[r])
            /\ Len(fetches[r]) = i
            /\ pc[r] = "done"
            /\ response[r].status = 500
            /\ response[r].text = "Error fetching data"
            /\ response[r].prices = <<>>

\* A sub-query of the fallback failed after earlier ones had returned
\* transactions.
C4_Witness ==
    \E r \in Reqs :
        /\ call[r] = 2 /\ pc[r] = "done" /\ allTransactions[r] # <<>>
        /\ replies[r][Len(replies[r])].kind = "malformed"
        /\ response[r].status = 500

----------------------------------------------------------------------------
(* C5 *)

\* C5: when the Certificate call fails at the network level, returns a
\* non-success status, or returns a body without cert.asset.id, the request
\* ends with status 500 and issues no Transactions sub-query.
C5_ResolveFailureAnswers500 ==
    \A r \in Reqs :
        (/\ replies[r] # <<>>
         /\ \/ replies[r][1].kind = "reject"
            \/ ~replies[r][1].ok
            \/ replies[r][1].depth < 5) =>
            /\ \A i \in 1..Len(fetches[r]) : fetches[r][i].api # "Transactions"
            /\ pc[r] = "done"
            /\ response[r].status = 500

----------------------------------------------------------------------------
(* C6 *)

\* C6: a request whose slabNumber is missing or empty issues no upstream call
\* and is answered with status 400 and the plain-text prompt, whatever
\* gradingCompany and gradeNumber are.
C6_MissingSlabNumberAnswers400 ==
    \A r \in Reqs :
        (pc[r] # "absent" /\ query[r].slabNumber \in {Undefined, ""}) =>
            /\ fetches[r] = <<>>
            /\ replies[r] = <<>>
            /\ pc[r] \in {"arrived", "done"}
            /\ pc[r] = "done" =>
                /\ response[r].status = 400
                /\ response[r].text = "Please provide a slab number"

\* A request with an empty slabNumber and both filters was answered 400.
C6_Witness ==
    \E r \in Reqs :
        /\ query[r].slabNumber = "" /\ Truthy(query[r].gradingCompany)
        /\ Truthy(query[r].gradeNumber)
        /\ pc[r] = "done" /\ response[r].status = 400

----------------------------------------------------------------------------
(* C7 *)

\* The response request r gets when it is handled alone with the upstream
\* answers and the clock readings it has had; NotSent while it waits.
Alone(r) ==
    IF pc[r] \in {"absent", "arrived"} THEN NotSent
    ELSE IF ~Truthy(query[r].slabNumber) THEN BadRequest
    ELSE IF replies[r] = <<>> THEN NotSent
    ELSE IF ~Resolved(r) THEN ServerError
    ELSE LET final == IF FirstRun(r).kind = "return" /\ FirstRun(r).value = <<>>
                      THEN SecondRun(r) ELSE FirstRun(r)
         IN  IF final.kind = "throw" THEN ServerError
             ELSE IF final.kind = "pending" THEN NotSent
             ELSE Json(final.value, calculateConfidence(final.value, clock[r]))

SameResponse(a, b) ==
    /\ a.status = b.status
    /\ a.text = b.text
    /\ a.prices = b.prices
    /\ a.status = 200 => a.confidence = b.confidence

\* The transaction was fetched for asset id: it is the upstream's sale of
\* that asset under the filter the transaction is tagged with.
FetchedFor(t, id) ==
    LET m == Market(id, t.gradingCompany, t.gradeNumber)[1]
    IN  m.price = t.price /\ m.date = t.date

\* C7: with two requests in flight and their upstream awaits interleaved in
\* any order, each request's response (status, text, prices in order,
\* confidence) is the one it gets when handled alone with the same upstream
\* answers, and every transaction in it was fetched for its own asset id.
C7_ConcurrentRequestsIndependent ==
    \A r \in Reqs :
        /\ SameResponse(response[r], Alone(r))
        /\ \A i \in 1..Len(response[r].prices) :
               FetchedFor(response[r].prices[i], internalId[r])

\* One request was answered from several sub-queries while the other, for
\* another asset, was waiting in the middle of its own accumulation.
C7_Witness ==
    \E r \in Reqs : \E o \in Reqs \ {r} :
        /\ pc[r] = "done" /\ response[r].status = 200
        /\ Len(response[r].prices) >= 2
        /\ pc[o] = "awaitTx" /\ allTransactions[o] # <<>>
        /\ internalId[o] # internalId[r]

----------------------------------------------------------------------------
(* C8 *)

\* Every price of a filtered set is a number.
AllNumbers(recentPrices) == \A i \in 1..Len(recentPrices) : ~isNaN(recentPrices[i].price)

\* The sum of the (whole) prices of a filtered set.
RECURSIVE Total(_)
Total(recentPrices) ==
    IF recentPrices = <<>> THEN 0
    ELSE recentPrices[1].price.n + Total(Tail(recentPrices))

\* The sum over a filtered set of |k * price - total|: k * k times the mean
\* absolute deviation of k prices whose sum is total.
RECURSIVE Spread(_, _, _)
Spread(recentPrices, k, total) ==
    IF recentPrices = <<>> THEN 0
    ELSE Abs(k * recentPrices[1].price.n - total) + Spread(Tail(recentPrices), k, total)

\* With k prices, sum S and spread D, the mean is S / k and the mean absolute
\* deviation D / (k * k), so deviation < 10% of the mean is 10 * D < k * S and
\* deviation < 20% of the mean is 5 * D < k * S.
LevelAsClaimed(recentPrices, level) ==
    LET k == Len(recentPrices)
        S == Total(recentPrices)
        D == Spread(recentPrices, k, S)
    IN  /\ level = "High" <=> 10 * D < k * S
        /\ level = "Medium" <=> (k * S <= 10 * D /\ 5 * D < k * S)
        /\ level = "Low" <=> k * S <= 5 * D

AggregatesAsClaimed(recentPrices, averagePrice, averageDeviation) ==
    LET k == Len(recentPrices)
        S == Total(recentPrices)
        D == Spread(recentPrices, k, S)
    IN  /\ averagePrice.d > 0 /\ averagePrice.n * k = S * averagePrice.d
        /\ averageDeviation.d > 0 /\ averageDeviation.n * k * k = D * averageDeviation.d

----------------------------------------------------------------------------
(* C9 *)

\* The transaction's date string is a date.
Dated(t) == \E age \in Ages : t.date = DayString(Today - age)

\* The day of a dated transaction.
DayOf(t) == Today - (CHOOSE age \in Ages : t.date = DayString(Today - age))

\* The transactions of ps dated on or after the day cutoff.
OnOrAfter(ps, cutoff) == SelectSeq(ps, LAMBDA t : Dated(t) /\ DayOf(t) >= cutoff)

RECURSIVE IsSubSeq(_, _)
IsSubSeq(s, t) ==
    IF s = <<>> THEN TRUE
    ELSE IF t = <<>> THEN FALSE
    ELSE IF Head(s) = Head(t) THEN IsSubSeq(Tail(s), Tail(t))
    ELSE IsSubSeq(s, Tail(t))

\* The multi-window form uses, in each window, exactly the transactions dated
\* on or after that window's cutoff, and the windows' sets are nested.
C9_MultiWindowOnOrAfterCutoff ==
    results # NoResults =>
        /\ \A period \in DOMAIN timespans :
            LET used == OnOrAfter(prices, reads[period] - timespans[period])
            IN  results[period].recentPrices =
                    [i \in 1..Len(used) |->
                        [price |-> parseFloat(used[i].price), date |-> used[i].date]]
        /\ IsSubSeq(results.week.recentPrices, results.month.recentPrices)
        /\ IsSubSeq(results.month.recentPrices, results.quarter.recentPrices)
        /\ IsSubSeq(results.quarter.recentPrices, results.year.recentPrices)

\* The legacy form uses exactly the transactions dated on or after its
\* cutoff, one month before the current time.
C9_LegacyOnOrAfterCutoff ==
    legacy # NoResults =>
        /\ \E m \in MonthLengths : legacy.lastMonth = DateAt(reads.month - m)
        /\ LET used == OnOrAfter(prices, legacy.lastMonth.n)
           IN  legacy.recentPrices =
                   [i \in 1..Len(used) |-> [price |-> parseFloat(used[i].price)]]

\* C9: in the legacy and in the multi-window form of the estimator, a
\* transaction contributes to a window if and only if its date is on or after
\* the window's cutoff, and the multi-window sets are nested week within month
\* within quarter within year.
C9_WindowIsOnOrAfterCutoff ==
    C9_MultiWindowOnOrAfterCutoff /\ C9_LegacyOnOrAfterCutoff

----------------------------------------------------------------------------
(* C10 *)

\* The transaction's price string is a number and its date string a date.
WellFormed(t) == ~isNaN(parseFloat(t.price)) /\ Dated(t)

WithoutMalformed(ps) == SelectSeq(ps, WellFormed)

\* C10: the estimator returns, and each window's averagePrice,
\* averageDeviation and confidenceLevel are those it returns for the same
\* input with the transactions whose price or date cannot be parsed removed.
C10_MalformedTransactionsExcluded ==
    /\ results # NoResults =>
        \A period \in DOMAIN timespans :
            LET clean == calculateConfidence(WithoutMalformed(prices), reads)[period]
            IN  /\ results[period].averagePrice = clean.averagePrice
                /\ results[period].averageDeviation = clean.averageDeviation
                /\ results[period].confidenceLevel = clean.confidenceLevel
    /\ legacy # NoResults =>
        \E m \in MonthLengths :
            /\ legacy.lastMonth = DateAt(reads.month - m)
            /\ legacy.confidence =
                   legacyCalculateConfidence(WithoutMalformed(prices), reads.month, m).confidence

----------------------------------------------------------------------------
(* C11 *)

\* The number zero, as res.json writes it.
Zero(x) == ~isNaN(x) /\ x.n = 0

\* The transactions of ps dated on or before the day cutoff.
OnOrBefore(ps, cutoff) == SelectSeq(ps, LAMBDA t : Dated(t) /\ DayOf(t) <= cutoff)

\* The multi-window form returns one entry per window, and 0 / 0 / Low for
\* every window no transaction of the input is dated in.
C11_MultiWindowEmptyIsZeroLow ==
    results # NoResults =>
        /\ DOMAIN results = {"week", "month", "quarter", "year"}
        /\ \A period \in DOMAIN results :
            OnOrAfter(prices, reads[period] - timespans[period]) = <<>> =>
                /\ Zero(results[period].averagePrice)
                /\ Zero(results[period].averageDeviation)
                /\ results[period].confidenceLevel = "Low"

\* The legacy form returns Low for the empty list and for every list no
\* transaction of which is dated in its window, the month before the current
\* time.
C11_LegacyEmptyIsLow ==
    legacy # NoResults =>
        /\ prices = <<>> => legacy.confidence = "Low"
        /\ OnOrAfter(prices, legacy.lastMonth.n) = <<>> => legacy.confidence = "Low"

\* C11: for the empty list and for any list with no transaction inside a
\* window, the multi-window estimator returns averagePrice 0, averageDeviation
\* 0 and confidenceLevel Low for that window, with an entry for each of week,
\* month, quarter and year; the legacy form returns Low.
C11_EmptyWindowIsZeroLow ==
    C11_MultiWindowEmptyIsZeroLow /\ C11_LegacyEmptyIsLow

\* The legacy form returns Low whenever the set its own filter keeps, the
\* transactions dated on or before the cutoff, is empty.
C11_LegacyFilteredEmptyIsLow ==
    legacy # NoResults =>
        /\ prices = <<>> => legacy.confidence = "Low"
        /\ OnOrBefore(prices, legacy.lastMonth.n) = <<>> => legacy.confidence = "Low"

----------------------------------------------------------------------------
(* C12 *)

\* Request r carries a certificate parameter and the handler has started on
\* it.
Started(r) == Truthy(query[r].slabNumber) /\ pc[r] \notin {"absent", "arrived"}

\* The Transactions calls of request r, in order of issue.
TxCalls(r) == SelectSeq(fetches[r], LAMBDA f : f.api = "Transactions")

Distinct(s) == \A i, j \in 1..Len(s) : s[i] = s[j] => i = j

\* The calls of a started request so far: one Certificate call, the first;
\* sub-queries only once it has returned, each with the id it returned; one
\* call in flight at most; two aggregator runs of at most five sub-queries,
\* none repeated; and a response, 200 or 500, exactly when the request is done
\* and every call issued has returned.
C12_CallsInOrder ==
    \A r \in Reqs : Started(r) =>
        /\ Len(fetches[r]) >= 1
        /\ fetches[r][1].api = "Cert" /\ fetches[r][1].id = query[r].slabNumber
        /\ \A i \in 2..Len(fetches[r]) : fetches[r][i].api = "Transactions"
        /\ Len(replies[r]) <= Len(fetches[r])
        /\ Len(fetches[r]) <= Len(replies[r]) + 1
        /\ TxCalls(r) # <<>> => Resolved(r)
        /\ \A i \in 1..Len(TxCalls(r)) :
            /\ TxCalls(r)[i].id = replies[r][1].id
            /\ TxCalls(r)[i].call \in {1, 2}
        /\ call[r] \in 0..2
        /\ \A n \in {1, 2} : Len(SubQueries(r, n)) <= 5 /\ Distinct(SubQueries(r, n))
        /\ Len(TxCalls(r)) <= 10
        /\ pc[r] # "done" => response[r] = NotSent
        /\ pc[r] = "done" =>
            /\ response[r].status \in {200, 500}
            /\ Len(replies[r]) = Len(fetches[r])

\* A response is sent once, and no upstream call is issued after it.
C12_OneResponseLast ==
    [][\A r \in Reqs : response[r] # NotSent =>
           /\ response'[r] = response[r]
           /\ fetches'[r] = fetches[r]]_vars

\* A request with a certificate parameter is answered 200 or 500.
C12_Answered ==
    \A r \in Reqs :
        (pc[r] = "arrived" /\ Truthy(query[r].slabNumber))
            ~> (pc[r] = "done" /\ response[r].status \in {200, 500})

\* C12: a request with a certificate parameter issues exactly one Certificate
\* call, which returns before any Transactions sub-query; every sub-query
\* carries the id that call returned; the aggregator runs at most twice, so
\* at most 10 sub-queries; and when every upstream call returns, the request
\* eventually gets exactly one response, 200 or 500, sent after the last
\* upstream call.
C12_PipelineInOrder ==
    []C12_CallsInOrder /\ C12_OneResponseLast /\ C12_Answered

\* A request answered 200 after the Certificate call and both aggregator
\* runs, ten sub-queries in all.
C12_Witness ==
    \E r \in Reqs :
        /\ Started(r) /\ pc[r] = "done"
        /\ response[r].status = 200 /\ response[r].prices # <<>>
        /\ Len(SubQueries(r, 1)) = 5 /\ Len(SubQueries(r, 2)) = 5
        /\ Len(replies[r]) = 11

====
